---- MODULE Spec2Model ----
(***************************************************************************)
(* PCA9557 8-bit I2C I/O expander driver (src/pca9557.py).                 *)
(*                                                                         *)
(* The device is a file of four 8-bit registers behind a byte-oriented bus *)
(* whose transactions may fail.  Every driver call is a short program of   *)
(* bus transactions; each transaction is one step of the model, so that    *)
(* calls of two callers can interleave.                                    *)
(***************************************************************************)
EXTENDS Integers, Sequences, FiniteSets, TLC

VARIABLES
    regs,        \* the device's register file: register address -> byte
    exp,         \* the PCA9557 object: "none" before __init__ returns, then "ready"
    debug,       \* PCA9557.debug
    pin_num,     \* PCA9557Pin.pin_num, NoPin while no adapter exists
    frame,       \* per caller: the call in progress or last completed
    prev,        \* per caller: the call completed before the current one
    ncalls,      \* per caller: number of calls started
    serialized,  \* TRUE when the callers wrap each call in a common mutex
    history      \* TRUE when prev is recorded

vars == <<regs, exp, debug, pin_num, frame, prev, ncalls, serialized, history>>

----------------------------------------------------------------------------
(* Program constants *)

PCA9557_INPUT_REG == 0
PCA9557_OUTPUT_REG == 1
PCA9557_POLARITY_REG == 2
PCA9557_CONFIG_REG == 3

PIN_LOW == 0
PIN_HIGH == 1
PIN_OUTPUT == 0
PIN_INPUT == 1
PIN_NON_INVERTED == 0
PIN_INVERTED == 1

Registers == {PCA9557_INPUT_REG, PCA9557_OUTPUT_REG, PCA9557_POLARITY_REG, PCA9557_CONFIG_REG}

(* Python's None as an argument, and the absent adapter *)
None == 0 - 1
NoPin == 0 - 100

----------------------------------------------------------------------------
(* Bounds of the model *)

NumSamples == 2     \* initial register files explored
PinSlack == 1       \* pin indices range over (0 - PinSlack) .. (7 + PinSlack)
MaxArg == 1         \* mode / value / polarity arguments range over 0 .. MaxArg
MaxCalls == 2       \* calls made by one caller

(* Sample register files <<input, output, polarity, config>>; the second is  *)
(* the bitwise complement of the first, so every bit of every register is    *)
(* seen both clear and set.                                                  *)
RegFileSamples ==
    << <<165, 60, 15, 195>>, <<90, 195, 240, 60>>, <<0, 0, 0, 255>>,
       <<255, 255, 255, 0>>, <<8, 247, 129, 1>>, <<1, 128, 254, 127>> >>

RegFile(i) == [r \in Registers |-> RegFileSamples[(i % Len(RegFileSamples)) + 1][r + 1]]

RegFiles == {RegFile(i) : i \in 0 .. (NumSamples - 1)}

Pins == (0 - PinSlack) .. (7 + PinSlack)
Args == 0 .. MaxArg
Callers == {"A", "B"}

----------------------------------------------------------------------------
(* Python integer bit operations (unbounded two's complement) *)

RECURSIVE BitAnd(_, _)
BitAnd(a, b) ==
    IF a = 0 \/ b = 0 THEN 0
    ELSE IF a = 0 - 1 THEN b
    ELSE IF b = 0 - 1 THEN a
    ELSE (a % 2) * (b % 2) + 2 * BitAnd(a \div 2, b \div 2)

RECURSIVE BitOr(_, _)
BitOr(a, b) ==
    IF a = 0 THEN b
    ELSE IF b = 0 THEN a
    ELSE IF a = 0 - 1 \/ b = 0 - 1 THEN 0 - 1
    ELSE (IF a % 2 = 1 \/ b % 2 = 1 THEN 1 ELSE 0) + 2 * BitOr(a \div 2, b \div 2)

BitNot(a) == 0 - a - 1

Shl(pin) == 2 ^ pin

(* bit `pin` of a byte, as read back by a test *)
Bit(v, pin) == (v \div (2 ^ pin)) % 2

----------------------------------------------------------------------------
(* Return values.  A record with a type tag keeps values of different      *)
(* Python types comparable.                                                *)

RetNone == [t |-> "none", v |-> <<>>]
RetBool(b) == [t |-> "bool", v |-> <<IF b THEN 1 ELSE 0>>]
RetInt(n) == [t |-> "int", v |-> <<n>>]
RetTuple(s) == [t |-> "tuple", v |-> s]
RetObj == [t |-> "object", v |-> <<>>]
Raised == [t |-> "raised", v |-> <<>>]

----------------------------------------------------------------------------
(* Call frames *)

ZeroRegs == [r \in Registers |-> 0]

IdleFrame ==
    [pc |-> "idle", api |-> "", apiarg |-> None, op |-> "", pin |-> None, arg |-> None,
     current |-> 0, new_value |-> 0, vals |-> <<>>, ret |-> RetNone, log |-> <<>>,
     pre |-> ZeroRegs]

(* The frame of a call entered in the current device state. *)
NewFrame(api, apiarg, op, pin, arg, pc) ==
    [IdleFrame EXCEPT !.pc = pc, !.api = api, !.apiarg = apiarg, !.op = op, !.pin = pin,
                      !.arg = arg, !.pre = regs]

Busy(f) == f.pc \notin {"idle", "done"}

(* With external serialization a call starts only while no other caller is inside one. *)
Mutex(c) == serialized => \A d \in Callers \ {c} : ~Busy(frame[d])

Callable(c) == ~Busy(frame[c]) /\ ncalls[c] < MaxCalls /\ Mutex(c)

Enter(c, f) ==
    /\ frame' = [frame EXCEPT ![c] = f]
    /\ prev' = [prev EXCEPT ![c] = IF history THEN frame[c] ELSE @]
    /\ ncalls' = [ncalls EXCEPT ![c] = @ + 1]

----------------------------------------------------------------------------
(* Bus transport and register access primitives *)

(* One transaction of the log: k is "r" or "w", val the byte read or written. *)
Txn(k, reg, val, ok) == [k |-> k, reg |-> reg, val |-> val, ok |-> ok]

(* a read helper that reports a failed read as all ones *)
_read_reg_ones(reg, ok) == IF ok THEN regs[reg] ELSE 255

(* readfrom_mem succeeds with the device's byte, or raises: _read_reg then returns 0 *)
_read_reg(reg, ok) == IF ok THEN regs[reg] ELSE 0

(* bytes([value]) raises ValueError outside 0..255, before any bus transaction *)
IsByte(value) == 0 <= value /\ value <= 255

(* the register file after writeto_mem: a failed write leaves the device as it was *)
writeto_mem(reg, value, ok) == IF ok THEN [regs EXCEPT ![reg] = value] ELSE regs

(* a write helper that reports success whatever happened *)
_write_reg_always_true(value, ok) == TRUE

(* a write helper that reports the opposite of what happened *)
_write_reg_negated(value, ok) == ~ok

(* _write_reg's result: True unless the transport (or bytes()) raised *)
_write_reg(value, ok) == IsByte(value) /\ ok

(* a pin check that is off by one at the top *)
ValidPin_off_by_one(pin) == 0 <= pin /\ pin <= 8

ValidPin(pin) == 0 <= pin /\ pin <= 7

----------------------------------------------------------------------------
(* Bit update rules of the three read-modify-write operations *)

(* an update rule that adds the pin's mask instead of or-ing it *)
set_pin_mode_new_value_add(current, pin, mode) ==
    IF mode = PIN_OUTPUT
    THEN BitAnd(current, BitNot(Shl(pin)))
    ELSE current + Shl(pin)

(* an update rule that assigns the pin's mask instead of or-ing it *)
set_pin_mode_new_value_assign(current, pin, mode) ==
    IF mode = PIN_OUTPUT
    THEN BitAnd(current, BitNot(Shl(pin)))
    ELSE Shl(pin)

set_pin_mode_new_value(current, pin, mode) ==
    IF mode = PIN_OUTPUT
    THEN BitAnd(current, BitNot(Shl(pin)))
    ELSE BitOr(current, Shl(pin))

(* an update rule whose clear branch forgets to invert the mask *)
set_pin_value_new_value_no_invert(current, pin, value) ==
    IF value = PIN_LOW
    THEN BitAnd(current, Shl(pin))
    ELSE BitOr(current, Shl(pin))

set_pin_value_new_value(current, pin, value) ==
    IF value = PIN_LOW
    THEN BitAnd(current, BitNot(Shl(pin)))
    ELSE BitOr(current, Shl(pin))

(* an update rule with the two branches exchanged *)
set_pin_polarity_new_value_swapped(current, pin, polarity) ==
    IF polarity = PIN_NON_INVERTED
    THEN BitOr(current, Shl(pin))
    ELSE BitAnd(current, BitNot(Shl(pin)))

set_pin_polarity_new_value(current, pin, polarity) ==
    IF polarity = PIN_NON_INVERTED
    THEN BitAnd(current, BitNot(Shl(pin)))
    ELSE BitOr(current, Shl(pin))

SetOps == {"set_pin_mode", "set_pin_value", "set_pin_polarity"}

(* set_pin_value working on the configuration register *)
TargetReg_value_on_config(op) ==
    CASE op = "set_pin_mode" -> PCA9557_CONFIG_REG
      [] op = "set_pin_value" -> PCA9557_CONFIG_REG
      [] op = "set_pin_polarity" -> PCA9557_POLARITY_REG

(* the register each read-modify-write operation reads and writes back *)
TargetReg(op) ==
    CASE op = "set_pin_mode" -> PCA9557_CONFIG_REG
      [] op = "set_pin_value" -> PCA9557_OUTPUT_REG
      [] op = "set_pin_polarity" -> PCA9557_POLARITY_REG

NewValue(op, current, pin, arg) ==
    CASE op = "set_pin_mode" -> set_pin_mode_new_value(current, pin, arg)
      [] op = "set_pin_value" -> set_pin_value_new_value(current, pin, arg)
      [] op = "set_pin_polarity" -> set_pin_polarity_new_value(current, pin, arg)

(* every outer call handing on the result of the expander operation *)
ApiResult_surface(api, inner) == inner

(* What the outer call returns, given the result of the expander operation it ran: *)
(* PCA9557Pin.__init__ and PCA9557Pin.init discard it.                             *)
ApiResult(api, inner) ==
    IF api \in {"PCA9557Pin", "init"} THEN RetObj ELSE inner

(* Entry of a read-modify-write operation: the pin check, before any bus access. *)
SetOpFrame(api, apiarg, op, pin, arg) ==
    IF ValidPin(pin)
    THEN NewFrame(api, apiarg, op, pin, arg, "rmw_read")
    ELSE [NewFrame(api, apiarg, op, pin, arg, "done")
             EXCEPT !.ret = ApiResult(api, RetBool(FALSE))]

(* Entry of get_pin_value. *)
GetFrame(api, apiarg, pin) ==
    IF ValidPin(pin)
    THEN NewFrame(api, apiarg, "get_pin_value", pin, None, "get_read")
    ELSE [NewFrame(api, apiarg, "get_pin_value", pin, None, "done")
             EXCEPT !.ret = ApiResult(api, RetInt(0 - 1))]

----------------------------------------------------------------------------
(* PCA9557: calls *)

set_pin_mode(c, pin, mode) ==
    /\ Callable(c) /\ exp = "ready"
    /\ Enter(c, SetOpFrame("set_pin_mode", mode, "set_pin_mode", pin, mode))
    /\ UNCHANGED <<regs, exp, debug, pin_num, serialized, history>>

set_pin_value(c, pin, value) ==
    /\ Callable(c) /\ exp = "ready"
    /\ Enter(c, SetOpFrame("set_pin_value", value, "set_pin_value", pin, value))
    /\ UNCHANGED <<regs, exp, debug, pin_num, serialized, history>>

set_pin_polarity(c, pin, polarity) ==
    /\ Callable(c) /\ exp = "ready"
    /\ Enter(c, SetOpFrame("set_pin_polarity", polarity, "set_pin_polarity", pin, polarity))
    /\ UNCHANGED <<regs, exp, debug, pin_num, serialized, history>>

get_pin_value(c, pin) ==
    /\ Callable(c) /\ exp = "ready"
    /\ Enter(c, GetFrame("get_pin_value", None, pin))
    /\ UNCHANGED <<regs, exp, debug, pin_num, serialized, history>>

read_all_pins(c) ==
    /\ Callable(c) /\ exp = "ready"
    /\ Enter(c, NewFrame("read_all_pins", None, "read_all_pins", None, None, "all_read"))
    /\ UNCHANGED <<regs, exp, debug, pin_num, serialized, history>>

(* PCA9557.__init__ up to its first bus transaction *)
Construct(c, dbg) ==
    /\ Callable(c) /\ exp = "none"
    /\ debug' = dbg
    /\ Enter(c, NewFrame("__init__", None, "__init__", None, None, "init_read"))
    /\ UNCHANGED <<regs, exp, pin_num, serialized, history>>

----------------------------------------------------------------------------
(* PCA9557: bus transactions of a call in progress *)

(* current = self._read_reg(REG), then the new value is computed *)
RmwRead(c) ==
    /\ frame[c].pc = "rmw_read"
    /\ \E ok \in BOOLEAN :
         LET f == frame[c]
             reg == TargetReg(f.op)
             current == _read_reg(reg, ok)
         IN frame' = [frame EXCEPT ![c] =
                [f EXCEPT !.pc = "rmw_write",
                          !.current = current,
                          !.new_value = NewValue(f.op, current, f.pin, f.arg),
                          !.log = Append(@, Txn("r", reg, current, ok))]]
    /\ UNCHANGED <<regs, exp, debug, pin_num, prev, ncalls, serialized, history>>

(* a write-back that is issued again after a failure *)
RmwWrite_retry(c) ==
    /\ frame[c].pc = "rmw_write"
    /\ \E ok \in BOOLEAN :
         LET f == frame[c]
             reg == TargetReg(f.op)
         IN /\ regs' = writeto_mem(reg, f.new_value, ok)
            /\ frame' = [frame EXCEPT ![c] =
                [f EXCEPT !.pc = IF ok THEN "done" ELSE "rmw_write",
                          !.ret = ApiResult(f.api, RetBool(ok)),
                          !.log = Append(@, Txn("w", reg, f.new_value, ok))]]
    /\ UNCHANGED <<exp, debug, pin_num, prev, ncalls, serialized, history>>

(* return self._write_reg(REG, new_value) *)
RmwWrite(c) ==
    /\ frame[c].pc = "rmw_write"
    /\ \E ok \in BOOLEAN :
         LET f == frame[c]
             reg == TargetReg(f.op)
             sent == IsByte(f.new_value)
         IN /\ regs' = IF sent THEN writeto_mem(reg, f.new_value, ok) ELSE regs
            /\ frame' = [frame EXCEPT ![c] =
                [f EXCEPT !.pc = "done",
                          !.ret = ApiResult(f.api, RetBool(_write_reg(f.new_value, ok))),
                          !.log = IF sent THEN Append(@, Txn("w", reg, f.new_value, ok))
                                  ELSE @]]
    /\ UNCHANGED <<exp, debug, pin_num, prev, ncalls, serialized, history>>

(* value = self._read_reg(INPUT); return HIGH if value & (1 << pin) else LOW *)
GetRead(c) ==
    /\ frame[c].pc = "get_read"
    /\ \E ok \in BOOLEAN :
         LET f == frame[c]
             value == _read_reg(PCA9557_INPUT_REG, ok)
             level == IF BitAnd(value, Shl(f.pin)) # 0 THEN PIN_HIGH ELSE PIN_LOW
         IN frame' = [frame EXCEPT ![c] =
                [f EXCEPT !.pc = "done",
                          !.current = value,
                          !.ret = ApiResult(f.api, RetInt(level)),
                          !.log = Append(@, Txn("r", PCA9557_INPUT_REG, value, ok))]]
    /\ UNCHANGED <<regs, exp, debug, pin_num, prev, ncalls, serialized, history>>

(* read_all_pins reading polarity before config *)
ReadAllOrder_swapped ==
    <<PCA9557_INPUT_REG, PCA9557_OUTPUT_REG, PCA9557_POLARITY_REG, PCA9557_CONFIG_REG>>

(* the order in which read_all_pins reads the registers *)
ReadAllOrder ==
    <<PCA9557_INPUT_REG, PCA9557_OUTPUT_REG, PCA9557_CONFIG_REG, PCA9557_POLARITY_REG>>

AllRead(c) ==
    /\ frame[c].pc = "all_read"
    /\ \E ok \in BOOLEAN :
         LET f == frame[c]
             reg == ReadAllOrder[Len(f.vals) + 1]
             val == _read_reg(reg, ok)
             vals == Append(f.vals, val)
             last == Len(vals) = Len(ReadAllOrder)
         IN frame' = [frame EXCEPT ![c] =
                [f EXCEPT !.pc = IF last THEN "done" ELSE "all_read",
                          !.vals = vals,
                          !.ret = IF last THEN RetTuple(vals) ELSE @,
                          !.log = Append(@, Txn("r", reg, val, ok))]]
    /\ UNCHANGED <<regs, exp, debug, pin_num, prev, ncalls, serialized, history>>

(* __init__ reading output before config *)
InitReadOrder_swapped == <<PCA9557_OUTPUT_REG, PCA9557_CONFIG_REG>>

(* the order of __init__'s reads, before the writes and again when verifying *)
InitReadOrder == <<PCA9557_CONFIG_REG, PCA9557_OUTPUT_REG>>

(* config = self._read_reg(CONFIG); output = self._read_reg(OUTPUT) *)
InitRead(c) ==
    /\ frame[c].pc = "init_read"
    /\ \E ok \in BOOLEAN :
         LET f == frame[c]
             reg == InitReadOrder[Len(f.vals) + 1]
             val == _read_reg(reg, ok)
             vals == Append(f.vals, val)
         IN frame' = [frame EXCEPT ![c] =
                [f EXCEPT !.pc = IF Len(vals) = Len(InitReadOrder)
                                 THEN "init_write_config" ELSE "init_read",
                          !.vals = vals,
                          !.log = Append(@, Txn("r", reg, val, ok))]]
    /\ UNCHANGED <<regs, exp, debug, pin_num, prev, ncalls, serialized, history>>

(* startup bytes with the two registers exchanged *)
StartupValue_swapped(reg) == IF reg = PCA9557_CONFIG_REG THEN 255 ELSE 0

(* the bytes __init__ writes: CONFIG = 0x00 (all outputs), OUTPUT = 0xFF (all high) *)
StartupValue(reg) == IF reg = PCA9557_CONFIG_REG THEN 0 ELSE 255

(* self._write_reg(CONFIG, 0x00): the result is not looked at *)
InitWriteConfig(c) ==
    /\ frame[c].pc = "init_write_config"
    /\ \E ok \in BOOLEAN :
         /\ regs' = writeto_mem(PCA9557_CONFIG_REG, StartupValue(PCA9557_CONFIG_REG), ok)
         /\ frame' = [frame EXCEPT ![c] =
                [@ EXCEPT !.pc = "init_write_output",
                          !.log = Append(@, Txn("w", PCA9557_CONFIG_REG,
                                               StartupValue(PCA9557_CONFIG_REG), ok))]]
    /\ UNCHANGED <<exp, debug, pin_num, prev, ncalls, serialized, history>>

(* self._write_reg(OUTPUT, 0xFF): the result is not looked at; without debug *)
(* __init__ then returns                                                      *)
InitWriteOutput(c) ==
    /\ frame[c].pc = "init_write_output"
    /\ \E ok \in BOOLEAN :
         /\ regs' = writeto_mem(PCA9557_OUTPUT_REG, StartupValue(PCA9557_OUTPUT_REG), ok)
         /\ frame' = [frame EXCEPT ![c] =
                [@ EXCEPT !.pc = IF debug THEN "init_verify" ELSE "done",
                          !.vals = IF debug THEN <<>> ELSE @,
                          !.ret = IF debug THEN @ ELSE RetObj,
                          !.log = Append(@, Txn("w", PCA9557_OUTPUT_REG,
                                               StartupValue(PCA9557_OUTPUT_REG), ok))]]
         /\ exp' = IF debug THEN exp ELSE "ready"
    /\ UNCHANGED <<debug, pin_num, prev, ncalls, serialized, history>>

(* a debug verification that writes the startup bytes once more *)
InitVerify_rewrites(c) ==
    /\ frame[c].pc = "init_verify"
    /\ \E ok \in BOOLEAN :
         LET f == frame[c]
             reg == InitReadOrder[Len(f.vals) + 1]
             vals == Append(f.vals, StartupValue(reg))
             last == Len(vals) = Len(InitReadOrder)
         IN /\ regs' = writeto_mem(reg, StartupValue(reg), ok)
            /\ frame' = [frame EXCEPT ![c] =
                [f EXCEPT !.pc = IF last THEN "done" ELSE "init_verify",
                          !.vals = vals,
                          !.ret = IF last THEN RetObj ELSE @,
                          !.log = Append(@, Txn("w", reg, StartupValue(reg), ok))]]
            /\ exp' = IF last THEN "ready" ELSE exp
    /\ UNCHANGED <<debug, pin_num, prev, ncalls, serialized, history>>

(* if self.debug: config = self._read_reg(CONFIG); output = self._read_reg(OUTPUT) *)
InitVerify(c) ==
    /\ frame[c].pc = "init_verify"
    /\ \E ok \in BOOLEAN :
         LET f == frame[c]
             reg == InitReadOrder[Len(f.vals) + 1]
             val == _read_reg(reg, ok)
             vals == Append(f.vals, val)
             last == Len(vals) = Len(InitReadOrder)
         IN /\ frame' = [frame EXCEPT ![c] =
                [f EXCEPT !.pc = IF last THEN "done" ELSE "init_verify",
                          !.vals = vals,
                          !.ret = IF last THEN RetObj ELSE @,
                          !.log = Append(@, Txn("r", reg, val, ok))]]
            /\ exp' = IF last THEN "ready" ELSE exp
    /\ UNCHANGED <<regs, debug, pin_num, prev, ncalls, serialized, history>>

----------------------------------------------------------------------------
(* PCA9557Pin: every operation delegates to the expander with the stored pin *)

(* an adapter that defaults to input *)
PinDefaultMode_input == PIN_INPUT

(* the mode PCA9557Pin.__init__ configures *)
PinDefaultMode == PIN_OUTPUT

(* PCA9557Pin.__init__: stores the pin, then set_pin_mode(pin_num, PIN_OUTPUT) *)
PCA9557Pin(c, pin) ==
    /\ Callable(c) /\ exp = "ready"
    /\ pin_num' = pin
    /\ Enter(c, SetOpFrame("PCA9557Pin", None, "set_pin_mode", pin, PinDefaultMode))
    /\ UNCHANGED <<regs, exp, debug, serialized, history>>

Pin_on(c) ==
    /\ Callable(c) /\ pin_num # NoPin
    /\ Enter(c, SetOpFrame("on", None, "set_pin_value", pin_num, PIN_HIGH))
    /\ UNCHANGED <<regs, exp, debug, pin_num, serialized, history>>

(* off() copied from on() without changing the level *)
Pin_off_high(c) ==
    /\ Callable(c) /\ pin_num # NoPin
    /\ Enter(c, SetOpFrame("off", None, "set_pin_value", pin_num, PIN_HIGH))
    /\ UNCHANGED <<regs, exp, debug, pin_num, serialized, history>>

Pin_off(c) ==
    /\ Callable(c) /\ pin_num # NoPin
    /\ Enter(c, SetOpFrame("off", None, "set_pin_value", pin_num, PIN_LOW))
    /\ UNCHANGED <<regs, exp, debug, pin_num, serialized, history>>

(* value(val): set when val is given (truthy -> high), get when it is None *)
Pin_value(c, val) ==
    /\ Callable(c) /\ pin_num # NoPin
    /\ Enter(c, IF val # None
                THEN SetOpFrame("value", val, "set_pin_value", pin_num,
                                IF val # 0 THEN PIN_HIGH ELSE PIN_LOW)
                ELSE GetFrame("value", None, pin_num))
    /\ UNCHANGED <<regs, exp, debug, pin_num, serialized, history>>

(* init(mode): mode 1 is input, any other given mode output; None does nothing *)
Pin_init(c, mode) ==
    /\ Callable(c) /\ pin_num # NoPin
    /\ Enter(c, IF mode # None
                THEN SetOpFrame("init", mode, "set_pin_mode", pin_num,
                                IF mode = 1 THEN PIN_INPUT ELSE PIN_OUTPUT)
                ELSE [NewFrame("init", None, "", pin_num, None, "done")
                         EXCEPT !.ret = RetObj])
    /\ UNCHANGED <<regs, exp, debug, pin_num, serialized, history>>

----------------------------------------------------------------------------
(* Single caller: the device is in any state; the expander is either still  *)
(* to be constructed or was constructed earlier.                            *)

NoFrames == [c \in Callers |-> IdleFrame]

Init ==
    /\ regs \in RegFiles
    /\ exp \in {"none", "ready"}
    /\ debug \in BOOLEAN
    /\ exp = "none" => debug = FALSE
    /\ pin_num = NoPin
    /\ frame = NoFrames
    /\ prev = NoFrames
    /\ ncalls = [c \in Callers |-> 0]
    /\ serialized = FALSE
    /\ history = FALSE

Next ==
    \E c \in {"A"} :
        \/ \E dbg \in BOOLEAN : Construct(c, dbg)
        \/ InitRead(c)
        \/ InitWriteConfig(c)
        \/ InitWriteOutput(c)
        \/ InitVerify(c)
        \/ \E pin \in Pins, mode \in Args : set_pin_mode(c, pin, mode)
        \/ \E pin \in Pins, value \in Args : set_pin_value(c, pin, value)
        \/ \E pin \in Pins, polarity \in Args : set_pin_polarity(c, pin, polarity)
        \/ \E pin \in Pins : get_pin_value(c, pin)
        \/ read_all_pins(c)
        \/ RmwRead(c)
        \/ RmwWrite(c)
        \/ GetRead(c)
        \/ AllRead(c)
        \/ \E pin \in Pins : PCA9557Pin(c, pin)
        \/ Pin_on(c)
        \/ Pin_off(c)
        \/ \E val \in Args \cup {None} : Pin_value(c, val)
        \/ \E mode \in Args \cup {None} : Pin_init(c, mode)

Spec == Init /\ [][Next]_vars

----------------------------------------------------------------------------
(* Two callers, one read-modify-write call each, on an expander constructed *)
(* earlier; with or without a mutex around each call.                       *)

InitRace ==
    /\ regs \in RegFiles
    /\ exp = "ready"
    /\ debug = FALSE
    /\ pin_num = NoPin
    /\ frame = NoFrames
    /\ prev = NoFrames
    /\ ncalls = [c \in Callers |-> MaxCalls - 1]
    /\ serialized \in BOOLEAN
    /\ history = FALSE

NextRace ==
    \E c \in Callers :
        \/ \E pin \in Pins, mode \in Args : set_pin_mode(c, pin, mode)
        \/ \E pin \in Pins, value \in Args : set_pin_value(c, pin, value)
        \/ \E pin \in Pins, polarity \in Args : set_pin_polarity(c, pin, polarity)
        \/ RmwRead(c)
        \/ RmwWrite(c)

SpecRace == InitRace /\ [][NextRace]_vars

----------------------------------------------------------------------------
(* Single caller on an expander constructed earlier, making expander calls  *)
(* one after the other, the previous call being recorded.                   *)

InitSeq ==
    /\ regs \in RegFiles
    /\ exp = "ready"
    /\ debug = FALSE
    /\ pin_num = NoPin
    /\ frame = NoFrames
    /\ prev = NoFrames
    /\ ncalls = [c \in Callers |-> 0]
    /\ serialized = FALSE
    /\ history = TRUE

NextSeq ==
    \E c \in {"A"} :
        \/ \E pin \in Pins, mode \in Args : set_pin_mode(c, pin, mode)
        \/ \E pin \in Pins, value \in Args : set_pin_value(c, pin, value)
        \/ \E pin \in Pins, polarity \in Args : set_pin_polarity(c, pin, polarity)
        \/ read_all_pins(c)
        \/ RmwRead(c)
        \/ RmwWrite(c)
        \/ AllRead(c)

SpecSeq == InitSeq /\ [][NextSeq]_vars

----------------------------------------------------------------------------
(* Vocabulary of the properties *)

A == frame["A"]
B == frame["B"]

Done(f) == f.pc = "done"

(* a pin index the chip has *)
PinInRange(pin) == pin \in 0 .. 7

(* no bus transaction of the call failed *)
AllOk(f) == \A i \in 1 .. Len(f.log) : f.log[i].ok

(* the call's first bus transaction, the read of a read-modify-write, succeeded *)
ReadOk(f) == Len(f.log) >= 1 => f.log[1].ok

Writes(f) == {i \in 1 .. Len(f.log) : f.log[i].k = "w"}

(* a and b agree on every bit other than bit p *)
DiffersAtMostBit(a, b, p) == \A j \in (0 .. 7) \ {p} : Bit(a, j) = Bit(b, j)

(* v with bit p made equal to b *)
WithBit(v, p, b) == v - Bit(v, p) * (2 ^ p) + b * (2 ^ p)

(* registers other than reg hold what they held when the call was entered *)
OthersKept(f, reg) == \A r \in Registers \ {reg} : regs[r] = f.pre[r]

(* position of a register in read_all_pins' tuple (input, output, config, polarity) *)
TuplePos(reg) == CHOOSE i \in 1 .. Len(ReadAllOrder) : ReadAllOrder[i] = reg

----------------------------------------------------------------------------
(* C1: when no bus transaction of it fails, PCA9557.__init__ leaves         *)
(* ConfigRegister = 0x00 and OutputRegister = 0xFF whatever the device held *)
(* before, and leaves InputRegister and PolarityRegister as they were.      *)
C1_ConstructionForcesKnownState ==
    (Done(A) /\ A.api = "__init__" /\ AllOk(A)) =>
        /\ regs[PCA9557_CONFIG_REG] = 0
        /\ regs[PCA9557_OUTPUT_REG] = 255
        /\ regs[PCA9557_INPUT_REG] = A.pre[PCA9557_INPUT_REG]
        /\ regs[PCA9557_POLARITY_REG] = A.pre[PCA9557_POLARITY_REG]

C1_Witness ==
    /\ Done(A) /\ A.api = "__init__" /\ AllOk(A)
    /\ A.pre[PCA9557_CONFIG_REG] # 0
    /\ A.pre[PCA9557_OUTPUT_REG] # 255
    /\ A.pre[PCA9557_POLARITY_REG] # 0

(* C2: if the transport fails on either startup write of __init__, construction *)
(* fails: the error reaches the caller and no expander is returned.             *)
C2_StartupWriteFailureFailsConstruction ==
    (Done(A) /\ A.api = "__init__" /\ \E i \in Writes(A) : ~A.log[i].ok) =>
        (A.ret = Raised /\ exp # "ready")

(* C3: for a pin index outside 0..7 the three set operations return False and  *)
(* get_pin_value returns -1, no bus transaction is issued and the device is    *)
(* unchanged.                                                                  *)
C3_InvalidPinRejectedBeforeBus ==
    (A.api \in SetOps \cup {"get_pin_value"} /\ ~PinInRange(A.pin)) =>
        /\ Done(A)
        /\ A.ret = (IF A.api = "get_pin_value" THEN RetInt(0 - 1) ELSE RetBool(FALSE))
        /\ A.log = <<>>
        /\ regs = A.pre

C3_Witness ==
    /\ Done(A) /\ A.api = "set_pin_polarity" /\ A.pin < 0 /\ A.arg = 1
    /\ A.ret = RetBool(FALSE)

(* C4 as stated: whatever the outcome of the call's own bus read and write, *)
(* the targeted register differs from its value before the call in at most  *)
(* bit p.                                                                   *)
C4_Original_OtherBitsKeptAlways ==
    (A.api \in SetOps /\ PinInRange(A.pin)) =>
        DiffersAtMostBit(regs[TargetReg(A.op)], A.pre[TargetReg(A.op)], A.pin)

(* C4, amended: when the call's own bus read succeeds, whatever the outcome *)
(* of its bus write, the targeted register differs from its value before    *)
(* the call in at most bit p.                                               *)
C4_OtherBitsKeptWhenReadSucceeds ==
    (A.api \in SetOps /\ PinInRange(A.pin) /\ ReadOk(A)) =>
        DiffersAtMostBit(regs[TargetReg(A.op)], A.pre[TargetReg(A.op)], A.pin)

C4_Witness ==
    /\ Done(A) /\ A.api = "set_pin_value" /\ PinInRange(A.pin) /\ AllOk(A)
    /\ A.arg = PIN_LOW
    /\ regs[PCA9557_OUTPUT_REG] # A.pre[PCA9557_OUTPUT_REG]
    /\ regs[PCA9557_OUTPUT_REG] # 0

(* C5: when no bus transaction fails, after set_pin_mode(p, b) bit p of      *)
(* ConfigRegister is b, after set_pin_value(p, b) bit p of OutputRegister is *)
(* b, after set_pin_polarity(p, b) bit p of PolarityRegister is b, in the    *)
(* device and in the tuple a following read_all_pins returns.                *)
C5_SetThenReadBack ==
    /\ (Done(A) /\ A.api \in SetOps /\ PinInRange(A.pin) /\ AllOk(A) /\ A.arg \in {0, 1}) =>
           Bit(regs[TargetReg(A.op)], A.pin) = A.arg
    /\ ( /\ Done(A) /\ A.api = "read_all_pins" /\ AllOk(A)
         /\ Done(prev["A"]) /\ prev["A"].api \in SetOps /\ PinInRange(prev["A"].pin)
         /\ AllOk(prev["A"]) /\ prev["A"].arg \in {0, 1} ) =>
           Bit(A.ret.v[TuplePos(TargetReg(prev["A"].op))], prev["A"].pin) = prev["A"].arg

C5_Witness ==
    /\ Done(A) /\ A.api = "read_all_pins" /\ AllOk(A)
    /\ Done(prev["A"]) /\ prev["A"].api = "set_pin_polarity" /\ prev["A"].pin = 7
    /\ AllOk(prev["A"]) /\ prev["A"].arg = PIN_INVERTED
    /\ Bit(prev["A"].pre[PCA9557_POLARITY_REG], 7) = 0
    /\ Bit(A.ret.v[4], 7) = 1

(* the same set operation called twice in a row on the same valid pin, no *)
(* bus transaction of either call failing                                 *)
SetTwice ==
    /\ Done(A) /\ Done(prev["A"])
    /\ A.api \in SetOps /\ prev["A"].api = A.api
    /\ PinInRange(A.pin) /\ prev["A"].pin = A.pin
    /\ AllOk(A) /\ AllOk(prev["A"])
    /\ A.arg \in {0, 1} /\ prev["A"].arg \in {0, 1}

(* C6: set(p, X) then set(p, Y) with no bus failure leaves bit p of the     *)
(* targeted register equal to Y and every other bit as it was before the    *)
(* first call, whatever X was.                                              *)
C6_SetTwiceKeepsLast ==
    SetTwice =>
        regs[TargetReg(A.op)] = WithBit(prev["A"].pre[TargetReg(A.op)], A.pin, A.arg)

C6_Witness ==
    /\ SetTwice /\ A.api = "set_pin_mode"
    /\ prev["A"].arg = PIN_INPUT /\ A.arg = PIN_OUTPUT
    /\ Bit(prev["A"].pre[PCA9557_CONFIG_REG], A.pin) = 0
    /\ regs[PCA9557_CONFIG_REG] = prev["A"].pre[PCA9557_CONFIG_REG]
    /\ A.pre[PCA9557_CONFIG_REG] # regs[PCA9557_CONFIG_REG]

(* C7: for a valid pin get_pin_value issues one read of InputRegister and no *)
(* write, returns bit p of InputRegister when the read succeeds and 0 when   *)
(* it fails; it returns -1 only for an invalid pin.                          *)
C7_GetPinValue ==
    (Done(A) /\ A.api = "get_pin_value") =>
        /\ PinInRange(A.pin) =>
              /\ Len(A.log) = 1 /\ A.log[1].k = "r" /\ A.log[1].reg = PCA9557_INPUT_REG
              /\ A.ret = RetInt(IF A.log[1].ok
                                THEN Bit(A.pre[PCA9557_INPUT_REG], A.pin) ELSE 0)
        /\ A.ret = RetInt(0 - 1) => ~PinInRange(A.pin)
        /\ Writes(A) = {}
        /\ regs = A.pre

C7_Witness ==
    /\ Done(A) /\ A.api = "get_pin_value" /\ A.pin = 3
    /\ ~A.log[1].ok /\ Bit(regs[PCA9557_INPUT_REG], 3) = 1 /\ A.ret = RetInt(0)

(* C8: for a valid pin the three set operations return a boolean, True      *)
(* exactly when their write-back succeeds, whether or not their read did.   *)
C8_SetReturnsWriteSuccess ==
    (Done(A) /\ A.api \in SetOps /\ PinInRange(A.pin)) =>
        /\ Len(A.log) = 2 /\ A.log[1].k = "r" /\ A.log[2].k = "w"
        /\ A.ret = RetBool(A.log[2].ok)

C8_Witness ==
    /\ Done(A) /\ A.api = "set_pin_mode" /\ PinInRange(A.pin)
    /\ ~A.log[1].ok /\ A.log[2].ok /\ A.ret = RetBool(TRUE)

----------------------------------------------------------------------------
(* Two callers *)

(* both callers completed the same set operation on different valid pins and *)
(* both got True                                                             *)
BothSucceeded ==
    /\ Done(A) /\ Done(B)
    /\ A.api \in SetOps /\ B.api = A.api
    /\ PinInRange(A.pin) /\ PinInRange(B.pin) /\ A.pin # B.pin
    /\ A.arg \in {0, 1} /\ B.arg \in {0, 1}
    /\ A.ret = RetBool(TRUE) /\ B.ret = RetBool(TRUE)

(* the register does not show the bit one of the two callers asked for *)
LostUpdate ==
    /\ BothSucceeded
    /\ \/ Bit(regs[TargetReg(A.op)], A.pin) # A.arg
       \/ Bit(regs[TargetReg(B.op)], B.pin) # B.arg

(* C9 as stated: when each call's read and write form one atomic step, no   *)
(* execution has both calls return True and one caller's bit change missing. *)
C9_Original_AtomicNeverLosesUpdate == serialized => ~LostUpdate

(* C9, amended: when each call's read and write form one atomic step and no *)
(* bus read fails, no execution has both calls return True and one caller's *)
(* bit change missing; without serialization such an execution exists even  *)
(* when no bus transaction fails (C9_Witness).                              *)
C9_AtomicNeverLosesUpdateWhenReadsSucceed ==
    (serialized /\ ReadOk(A) /\ ReadOk(B)) => ~LostUpdate

C9_Witness == ~serialized /\ LostUpdate /\ AllOk(A) /\ AllOk(B)

----------------------------------------------------------------------------
(* C10: when no bus transaction fails, constructing a PCA9557Pin for a valid *)
(* pin p clears bit p of ConfigRegister, keeps its other bits and leaves the *)
(* Input, Output and Polarity registers unchanged.                           *)
C10_AdapterConstructionSetsOutputMode ==
    (Done(A) /\ A.api = "PCA9557Pin" /\ PinInRange(A.pin) /\ AllOk(A)) =>
        /\ regs[PCA9557_CONFIG_REG] = WithBit(A.pre[PCA9557_CONFIG_REG], A.pin, 0)
        /\ OthersKept(A, PCA9557_CONFIG_REG)
        /\ pin_num = A.pin

C10_Witness ==
    /\ Done(A) /\ A.api = "PCA9557Pin" /\ PinInRange(A.pin) /\ AllOk(A)
    /\ Bit(A.pre[PCA9557_CONFIG_REG], A.pin) = 1
    /\ A.pre[PCA9557_CONFIG_REG] # 255

----------------------------------------------------------------------------
(* What a call of an expander operation must produce, stated on its own:    *)
(* its bus transactions, its result and the register file it leaves, from  *)
(* the register file at entry and the outcomes okr, okw of its read and     *)
(* write.                                                                   *)

OwnReg(op) ==
    IF op = "set_pin_mode" THEN PCA9557_CONFIG_REG
    ELSE IF op = "set_pin_value" THEN PCA9557_OUTPUT_REG
    ELSE PCA9557_POLARITY_REG

ExpanderOutcome(op, pin, arg, pre, okr, okw) ==
    IF op = "get_pin_value"
    THEN IF PinInRange(pin)
         THEN LET val == IF okr THEN pre[PCA9557_INPUT_REG] ELSE 0
              IN [log |-> <<Txn("r", PCA9557_INPUT_REG, val, okr)>>,
                  ret |-> RetInt(Bit(val, pin)), regs |-> pre]
         ELSE [log |-> <<>>, ret |-> RetInt(0 - 1), regs |-> pre]
    ELSE IF PinInRange(pin)
         THEN LET reg == OwnReg(op)
                  cur == IF okr THEN pre[reg] ELSE 0
                  newv == WithBit(cur, pin, IF arg = 0 THEN 0 ELSE 1)
              IN [log |-> <<Txn("r", reg, cur, okr), Txn("w", reg, newv, okw)>>,
                  ret |-> RetBool(okw),
                  regs |-> IF okw THEN [pre EXCEPT ![reg] = newv] ELSE pre]
         ELSE [log |-> <<>>, ret |-> RetBool(FALSE), regs |-> pre]

(* outcome of the call's i-th bus transaction *)
OkAt(f, i) == IF Len(f.log) >= i THEN f.log[i].ok ELSE TRUE

(* the call's transactions and the device it leaves are those of op(pin, arg) *)
ActsAs(f, op, pin, arg) ==
    LET o == ExpanderOutcome(op, pin, arg, f.pre, OkAt(f, 1), OkAt(f, 2))
    IN f.log = o.log /\ regs = o.regs

(* the call returns what op(pin, arg) returns *)
ReturnsAs(f, op, pin, arg) ==
    f.ret = ExpanderOutcome(op, pin, arg, f.pre, OkAt(f, 1), OkAt(f, 2)).ret

(* the expander operation and argument each adapter operation stands for *)
AdapterOp(f) ==
    IF f.api \in {"on", "off"} THEN "set_pin_value"
    ELSE IF f.api = "value" THEN (IF f.apiarg = None THEN "get_pin_value" ELSE "set_pin_value")
    ELSE "set_pin_mode"

AdapterArg(f) ==
    IF f.api = "on" THEN 1
    ELSE IF f.api = "off" THEN 0
    ELSE IF f.api = "value" THEN (IF f.apiarg = 0 THEN 0 ELSE 1)
    ELSE (IF f.apiarg = 1 THEN PIN_INPUT ELSE PIN_OUTPUT)

AdapterOps == {"on", "off", "value", "init"}

(* the direct calls of the expander produce ExpanderOutcome *)
DirectCallsAct ==
    (Done(A) /\ A.api \in SetOps \cup {"get_pin_value"}) =>
        ActsAs(A, A.api, A.pin, A.arg) /\ ReturnsAs(A, A.api, A.pin, A.arg)

(* an adapter call that runs an expander operation: all but init() without a mode *)
Delegates(f) == f.api \in AdapterOps /\ ~(f.api = "init" /\ f.apiarg = None)

(* C11 as stated: every adapter operation issues the transactions, returns   *)
(* the result and has the effect of the corresponding expander operation on  *)
(* the stored pin; init() without a mode issues no transaction.              *)
C11_Original_AdapterEquivalent ==
    /\ DirectCallsAct
    /\ (Done(A) /\ Delegates(A)) =>
           /\ ActsAs(A, AdapterOp(A), pin_num, AdapterArg(A))
           /\ ReturnsAs(A, AdapterOp(A), pin_num, AdapterArg(A))
    /\ (Done(A) /\ A.api = "init" /\ A.apiarg = None) => (A.log = <<>> /\ regs = A.pre)

(* C11, amended: every adapter operation issues the transactions and has the *)
(* effect of the corresponding expander operation on the stored pin; on, off *)
(* and value return that operation's result, init returns the adapter itself *)
(* whatever set_pin_mode returned; init() without a mode issues no           *)
(* transaction.                                                              *)
C11_AdapterDelegates ==
    /\ DirectCallsAct
    /\ (Done(A) /\ Delegates(A)) =>
           /\ ActsAs(A, AdapterOp(A), pin_num, AdapterArg(A))
           /\ IF A.api = "init" THEN A.ret = RetObj
              ELSE ReturnsAs(A, AdapterOp(A), pin_num, AdapterArg(A))
    /\ (Done(A) /\ A.api = "init" /\ A.apiarg = None) =>
           (A.log = <<>> /\ regs = A.pre /\ A.ret = RetObj)

C11_Witness ==
    /\ Done(A) /\ A.api = "off" /\ PinInRange(pin_num) /\ AllOk(A)
    /\ Bit(A.pre[PCA9557_OUTPUT_REG], pin_num) = 1
    /\ Bit(regs[PCA9557_OUTPUT_REG], pin_num) = 0
    /\ A.ret = RetBool(TRUE)

----------------------------------------------------------------------------
(* What PCA9557.__init__ must do before any debug verification: read Config, *)
(* read Output, write Config = 0x00, write Output = 0xFF, with outcomes ok.  *)

StartupLog(pre, ok) ==
    <<Txn("r", PCA9557_CONFIG_REG, IF ok[1] THEN pre[PCA9557_CONFIG_REG] ELSE 0, ok[1]),
      Txn("r", PCA9557_OUTPUT_REG, IF ok[2] THEN pre[PCA9557_OUTPUT_REG] ELSE 0, ok[2]),
      Txn("w", PCA9557_CONFIG_REG, 0, ok[3]),
      Txn("w", PCA9557_OUTPUT_REG, 255, ok[4])>>

StartupRegs(pre, ok) ==
    [pre EXCEPT ![PCA9557_CONFIG_REG] = IF ok[3] THEN 0 ELSE @,
                ![PCA9557_OUTPUT_REG] = IF ok[4] THEN 255 ELSE @]

(* the outcomes of the call's bus transactions, in order *)
Oks(f) == [i \in 1 .. Len(f.log) |-> f.log[i].ok]

(* C12: with debug off and no transport failure, __init__ issues exactly four *)
(* bus transactions, in this order: read Config, read Output, write          *)
(* Config = 0x00, write Output = 0xFF.                                       *)
C12_ConstructionTransactions ==
    (Done(A) /\ A.api = "__init__" /\ ~debug /\ AllOk(A)) =>
        A.log = StartupLog(A.pre, <<TRUE, TRUE, TRUE, TRUE>>)

C12_Witness ==
    /\ Done(A) /\ A.api = "__init__" /\ ~debug /\ AllOk(A)
    /\ Len(A.log) = 4
    /\ A.pre[PCA9557_CONFIG_REG] # 0 /\ A.pre[PCA9557_OUTPUT_REG] # 255

----------------------------------------------------------------------------
(* What read_all_pins must do: read Input, Output, Config, Polarity. *)

ReadAllLog(pre, ok) ==
    <<Txn("r", PCA9557_INPUT_REG, IF ok[1] THEN pre[PCA9557_INPUT_REG] ELSE 0, ok[1]),
      Txn("r", PCA9557_OUTPUT_REG, IF ok[2] THEN pre[PCA9557_OUTPUT_REG] ELSE 0, ok[2]),
      Txn("r", PCA9557_CONFIG_REG, IF ok[3] THEN pre[PCA9557_CONFIG_REG] ELSE 0, ok[3]),
      Txn("r", PCA9557_POLARITY_REG, IF ok[4] THEN pre[PCA9557_POLARITY_REG] ELSE 0, ok[4])>>

(* Every call other than __init__ issues the transactions, returns the      *)
(* result and leaves the device that its arguments, the device at entry and *)
(* the transport outcomes determine: none of this mentions debug.           *)
CallsIgnoreDebug ==
    /\ DirectCallsAct
    /\ C11_AdapterDelegates
    /\ (Done(A) /\ A.api = "PCA9557Pin") =>
           (ActsAs(A, "set_pin_mode", A.pin, PIN_OUTPUT) /\ A.ret = RetObj)
    /\ (Done(A) /\ A.api = "read_all_pins") =>
           /\ Len(A.log) = 4
           /\ A.log = ReadAllLog(A.pre, Oks(A))
           /\ A.ret = RetTuple([i \in 1 .. 4 |-> A.log[i].val])
           /\ regs = A.pre

(* the first four transactions, the result and the effect of __init__ ignore debug *)
StartupIgnoresDebug ==
    (Done(A) /\ A.api = "__init__") =>
        /\ Len(A.log) >= 4
        /\ SubSeq(A.log, 1, 4) = StartupLog(A.pre, Oks(A))
        /\ regs = StartupRegs(A.pre, Oks(A))
        /\ A.ret = RetObj

(* C13 as stated: debug has no effect: a run with debug = True issues the    *)
(* same bus transactions, returns the same results and leaves the same       *)
(* device state as the run with debug = False; so __init__ issues its four   *)
(* startup transactions and no other, whatever debug is.                     *)
C13_Original_DebugHasNoEffect ==
    /\ CallsIgnoreDebug
    /\ StartupIgnoresDebug
    /\ (Done(A) /\ A.api = "__init__") => Len(A.log) = 4

(* C13, amended: debug has no effect on results and on the device state, and *)
(* none on the bus transactions except in __init__, which with debug = True  *)
(* issues two more reads after its startup writes: Config, then Output.      *)
C13_DebugOnlyAddsVerifyReads ==
    /\ CallsIgnoreDebug
    /\ StartupIgnoresDebug
    /\ (Done(A) /\ A.api = "__init__" /\ ~debug) => Len(A.log) = 4
    /\ (Done(A) /\ A.api = "__init__" /\ debug) =>
           /\ Len(A.log) = 6
           /\ A.log[5] = Txn("r", PCA9557_CONFIG_REG,
                             IF A.log[5].ok THEN regs[PCA9557_CONFIG_REG] ELSE 0, A.log[5].ok)
           /\ A.log[6] = Txn("r", PCA9557_OUTPUT_REG,
                             IF A.log[6].ok THEN regs[PCA9557_OUTPUT_REG] ELSE 0, A.log[6].ok)

C13_Witness ==
    /\ Done(A) /\ A.api = "__init__" /\ debug /\ Len(A.log) = 6
    /\ ~A.log[3].ok /\ A.log[4].ok /\ A.log[5].ok /\ ~A.log[6].ok
    /\ regs[PCA9557_CONFIG_REG] # 0

----------------------------------------------------------------------------
(* C14: no retries: for a valid pin each set operation issues exactly one    *)
(* read then exactly one write, both of its own register, and get_pin_value  *)
(* exactly one read of InputRegister, whether or not a transaction fails.    *)
C14_NoRetries ==
    /\ (A.api \in SetOps /\ PinInRange(A.pin)) =>
           /\ Len(A.log) <= 2
           /\ Done(A) => Len(A.log) = 2
           /\ Len(A.log) >= 1 => (A.log[1].k = "r" /\ A.log[1].reg = OwnReg(A.api))
           /\ Len(A.log) >= 2 => (A.log[2].k = "w" /\ A.log[2].reg = OwnReg(A.api))
    /\ (A.api = "get_pin_value" /\ PinInRange(A.pin)) =>
           /\ Len(A.log) <= 1
           /\ Done(A) => (Len(A.log) = 1 /\ A.log[1].k = "r"
                          /\ A.log[1].reg = PCA9557_INPUT_REG)

C14_Witness ==
    /\ Done(A) /\ A.api = "set_pin_polarity" /\ PinInRange(A.pin)
    /\ Len(A.log) = 2 /\ ~A.log[1].ok /\ ~A.log[2].ok

(* C15: read_all_pins issues four reads (Input, Output, Config, Polarity)    *)
(* and no write, leaves the device unchanged, and when no read fails returns *)
(* the device's (input, output, config, polarity).                           *)
C15_ReadAllIsObservation ==
    (A.api = "read_all_pins") =>
        /\ regs = A.pre
        /\ Writes(A) = {}
        /\ Done(A) =>
              /\ Len(A.log) = 4
              /\ A.log[1].reg = PCA9557_INPUT_REG /\ A.log[2].reg = PCA9557_OUTPUT_REG
              /\ A.log[3].reg = PCA9557_CONFIG_REG /\ A.log[4].reg = PCA9557_POLARITY_REG
              /\ AllOk(A) =>
                    A.ret = RetTuple(<<regs[PCA9557_INPUT_REG], regs[PCA9557_OUTPUT_REG],
                                       regs[PCA9557_CONFIG_REG], regs[PCA9557_POLARITY_REG]>>)

C15_Witness ==
    /\ Done(A) /\ A.api = "read_all_pins" /\ AllOk(A)
    /\ A.ret.v[3] = regs[PCA9557_CONFIG_REG]
    /\ regs[PCA9557_CONFIG_REG] # regs[PCA9557_POLARITY_REG]

(* C16: PCA9557Pin.__init__ returns an adapter also when the write of its    *)
(* set_pin_mode fails and when the pin is outside 0..7; ConfigRegister is    *)
(* then unchanged, and for an invalid pin no bus transaction is issued.      *)
C16_AdapterConstructionHidesFailure ==
    (A.api = "PCA9557Pin") =>
        /\ Done(A) => (A.ret = RetObj /\ pin_num = A.pin)
        /\ ~PinInRange(A.pin) => (Done(A) /\ A.log = <<>> /\ regs = A.pre)
        /\ (Done(A) /\ PinInRange(A.pin) /\ ~A.log[2].ok) => regs = A.pre

C16_Witness ==
    /\ Done(A) /\ A.api = "PCA9557Pin" /\ PinInRange(A.pin)
    /\ A.log[1].ok /\ ~A.log[2].ok /\ A.ret = RetObj
    /\ Bit(regs[PCA9557_CONFIG_REG], A.pin) = 1

(* C17: set_pin_value on a pin configured as input: when no bus transaction  *)
(* fails it returns True and sets bit p of OutputRegister to b, it never     *)
(* reads or writes ConfigRegister, and Config, Polarity and Input are        *)
(* unchanged.                                                                *)
C17_SetValueIgnoresDirection ==
    (A.api = "set_pin_value" /\ PinInRange(A.pin)
       /\ Bit(A.pre[PCA9557_CONFIG_REG], A.pin) = 1) =>
        /\ \A i \in 1 .. Len(A.log) : A.log[i].reg # PCA9557_CONFIG_REG
        /\ OthersKept(A, PCA9557_OUTPUT_REG)
        /\ (Done(A) /\ AllOk(A) /\ A.arg \in {0, 1}) =>
              (A.ret = RetBool(TRUE) /\ Bit(regs[PCA9557_OUTPUT_REG], A.pin) = A.arg)

C17_Witness ==
    /\ Done(A) /\ A.api = "set_pin_value" /\ PinInRange(A.pin) /\ AllOk(A)
    /\ Bit(A.pre[PCA9557_CONFIG_REG], A.pin) = 1
    /\ A.arg = PIN_HIGH /\ Bit(A.pre[PCA9557_OUTPUT_REG], A.pin) = 0
    /\ Bit(regs[PCA9557_OUTPUT_REG], A.pin) = 1

(* C18: when the read of a set operation fails and its write succeeds, the   *)
(* call returns True and the targeted register becomes 1 << p if the         *)
(* requested value is non-zero and 0x00 if it is zero, whatever it held.     *)
C18_FailedReadReachesDevice ==
    (Done(A) /\ A.api \in SetOps /\ PinInRange(A.pin) /\ ~A.log[1].ok /\ A.log[2].ok) =>
        /\ A.ret = RetBool(TRUE)
        /\ regs[OwnReg(A.api)] = (IF A.arg # 0 THEN 2 ^ A.pin ELSE 0)

C18_Witness ==
    /\ Done(A) /\ A.api = "set_pin_mode" /\ PinInRange(A.pin)
    /\ ~A.log[1].ok /\ A.log[2].ok /\ A.arg = PIN_INPUT
    /\ Bit(A.pre[PCA9557_CONFIG_REG], A.pin) = 1
    /\ A.pre[PCA9557_CONFIG_REG] # regs[PCA9557_CONFIG_REG]

(* C19: with a single caller, whenever a set operation returns False         *)
(* (invalid pin or failed write) the four registers hold what they held      *)
(* before the call.                                                          *)
C19_FalseMeansUnchanged ==
    (Done(A) /\ A.api \in SetOps /\ A.ret = RetBool(FALSE)) => regs = A.pre

C19_Witness ==
    /\ Done(A) /\ A.api = "set_pin_value" /\ PinInRange(A.pin)
    /\ A.ret = RetBool(FALSE) /\ A.log[1].ok
    /\ A.new_value # A.pre[PCA9557_OUTPUT_REG]

====
